---- MODULE Spec2Model ----
(***************************************************************************)
(* A model of pykis' AccessToken (src/src/pykis/access_token.py): the      *)
(* in-memory token (value, valid_until), the diskcache store it writes     *)
(* through to, and the wall clock that datetime.now() reads.               *)
(*                                                                         *)
(* Python values are records tagged with their type (ty), so that None, a  *)
(* str and a datetime can be told apart the way the interpreter does.      *)
(***************************************************************************)
EXTENDS Integers, Sequences, FiniteSets, TLC

VARIABLES
    value,        \* self.value: None or a str
    valid_until,  \* self.valid_until: None or a datetime
    cache,        \* self._cache: the rows of the store, [key, data]
    now,          \* the wall clock read by datetime.now()
    last,         \* the call just made and its outcome (NoCall: none since the last change)
    key_in,       \* the pair of identities handed to _get_cache_key
    key_out,      \* the pair of keys _get_cache_key derived from key_in
    mgr           \* two managers sharing the store: each one's value, valid_until and
                  \* its place in load_from_cache (pc, key_info, cached_data)

vars == <<value, valid_until, cache, now, last, key_in, key_out, mgr>>

----------------------------------------------------------------------------
\* Bounds of the model.

\* The clock runs over 0..MaxTime.
MaxTime == 1

\* The longest-lived response expires time_margin + MaxLife seconds after it is issued.
MaxLife == 2

\* The longest appkey / appsecret handed to _get_cache_key.
MaxFieldLen == 1

----------------------------------------------------------------------------
\* Python values.

None == [ty |-> "NoneType"]

Str(s) == [ty |-> "str", fmt |-> "text", s |-> s]

PyInt(n) == [ty |-> "int", n |-> n]

\* A datetime: t seconds on the clock's axis; aware = it carries a UTC offset.
Datetime(t, aware) == [ty |-> "datetime", t |-> t, aware |-> aware]

\* The outcome of an expression: the exception it raised ("none": it returned val).
Ok(v) == [exc |-> "none", val |-> v]

Raise(e) == [exc |-> e, val |-> None]

\* datetime.now(): a naive local datetime.
datetime_now(t) == Datetime(t, FALSE)

\* datetime.isoformat(): the ISO-8601 text of a datetime, with its offset if aware.
isoformat(dt) ==
    [ty |-> "str", fmt |-> "iso8601", t |-> dt.t,
     offset |-> IF dt.aware THEN "+00:00" ELSE ""]

\* datetime.fromisoformat(x): TypeError unless x is a str, ValueError unless
\* the str is ISO-8601 text; a text with an offset parses to an aware datetime.
fromisoformat(x) ==
    IF x.ty # "str" THEN Raise("TypeError")
    ELSE IF x.fmt # "iso8601" THEN Raise("ValueError")
    ELSE Ok(Datetime(x.t, x.offset # ""))

\* int(x)
int_of(x) ==
    IF x.ty = "int" THEN Ok(x.n)
    ELSE IF x.ty = "str" THEN Raise("ValueError")
    ELSE Raise("TypeError")

\* (mutant) a <= b in place of a < b
datetime_le(a, b) ==
    IF a.aware # b.aware THEN Raise("TypeError") ELSE Ok(a.t <= b.t)

\* a < b on datetimes: TypeError between a naive and an aware one.
datetime_lt(a, b) ==
    IF a.aware # b.aware THEN Raise("TypeError") ELSE Ok(a.t < b.t)

----------------------------------------------------------------------------
\* AccessToken's helpers.

time_margin == 60

\* the text written after "Bearer " in create
BearerOf(resp) == Str("Bearer " \o resp.access_token.s)

\* (mutant) _valid_until without the safety margin
valid_until_of_nomargin(resp, t) ==
    IF "expires_in" \notin DOMAIN resp THEN Raise("AttributeError")
    ELSE LET n == int_of(resp.expires_in) IN
         IF n.exc # "none" THEN n
         ELSE Ok(Datetime(datetime_now(t).t + n.val, FALSE))

\* (mutant) _valid_until on datetime.now(timezone.utc), an aware datetime
valid_until_of_utc(resp, t) ==
    IF "expires_in" \notin DOMAIN resp THEN Raise("AttributeError")
    ELSE LET n == int_of(resp.expires_in) IN
         IF n.exc # "none" THEN n
         ELSE Ok(Datetime(datetime_now(t).t + (n.val - time_margin), TRUE))

\* _valid_until(resp) called at time t
valid_until_of(resp, t) ==
    IF "expires_in" \notin DOMAIN resp THEN Raise("AttributeError")
    ELSE LET n == int_of(resp.expires_in) IN
         IF n.exc # "none" THEN n
         ELSE LET duration == n.val - time_margin IN
              Ok(Datetime(datetime_now(t).t + duration, FALSE))

\* is_valid() for a manager holding (v, vu), called at time t
is_valid(v, vu, t) ==
    IF v = None THEN Ok(FALSE)
    ELSE IF vu = None THEN Ok(FALSE)
    ELSE datetime_lt(datetime_now(t), vu)

\* key_info.get(field, ""): a str is the sequence of its characters
FieldOf(key_info, field) ==
    IF field \in DOMAIN key_info THEN key_info[field] ELSE <<>>

\* hashlib.sha256(s).hexdigest(), taken to be injective on s
sha256_hexdigest(s) == [sha256 |-> s]

\* (mutant) _get_cache_key joining the two fields without the delimiter
get_cache_key_nodelim(key_info) ==
    sha256_hexdigest(FieldOf(key_info, "appkey") \o FieldOf(key_info, "appsecret"))

\* _get_cache_key(key_info)
get_cache_key(key_info) ==
    LET appkey == FieldOf(key_info, "appkey")
        appsecret == FieldOf(key_info, "appsecret")
        key_string == appkey \o <<":">> \o appsecret
    IN  sha256_hexdigest(key_string)

----------------------------------------------------------------------------
\* The store (diskcache.Cache): rows [key, data], at most one per key.  create
\* calls set without an expire argument: a row stays until it is replaced,
\* deleted or dropped by the store.

CacheHas(c, k) == \E r \in c : r.key = k

\* Cache.get(key): the row's data, or None
CacheGet(c, k) ==
    IF CacheHas(c, k) THEN (CHOOSE r \in c : r.key = k).data ELSE None

\* (mutant) a set that adds a row without replacing the key's row
CacheAdd(c, k, d) == c \cup {[key |-> k, data |-> d]}

\* Cache.set(key, data): replaces the key's row
CacheSet(c, k, d) == {r \in c : r.key # k} \cup {[key |-> k, data |-> d]}

\* (mutant) a delete that empties the store
CacheClear(c, k) == {}

\* Cache.delete(key)
CacheDelete(c, k) == {r \in c : r.key # k}

----------------------------------------------------------------------------
\* The inputs the operations are called with.

Tokens == {"abc123", "xyz789"}

\* lifetimes: one second short of the margin, the margin itself, one second
\* and MaxLife seconds past it
ExpiresIn == {time_margin - 1, time_margin, time_margin + 1, time_margin + MaxLife}

\* authentication responses exposing access_token and expires_in
WellFormedResps ==
    {[access_token |-> Str(tok), expires_in |-> PyInt(e)] : tok \in Tokens, e \in ExpiresIn}

\* responses that lack a field, or whose expires_in int() refuses
MalformedResps ==
    { [expires_in |-> PyInt(time_margin + 1)],
      [access_token |-> Str("abc123")],
      [access_token |-> Str("abc123"), expires_in |-> Str("soon")] }

Resps == WellFormedResps \cup MalformedResps

\* credential identities (a str is the sequence of its characters)
Identities ==
    { [appkey |-> <<"k", "1">>, appsecret |-> <<"s", "1">>],
      [appkey |-> <<"k", "2">>, appsecret |-> <<"s", "2">>] }

Keys == {get_cache_key(i) : i \in Identities}

\* records that cannot be deserialized: no value, no valid_until, a malformed timestamp
CorruptRecords ==
    { [valid_until |-> isoformat(Datetime(MaxTime + 1, FALSE))],
      [value |-> Str("Bearer abc123")],
      [value |-> Str("Bearer abc123"), valid_until |-> Str("not-a-timestamp")] }

\* a well-formed record written by hand, its timestamp carrying a UTC offset
\* (in the future before MaxTime, no longer at MaxTime)
HandWrittenRecords ==
    {[value |-> Str("Bearer abc123"), valid_until |-> isoformat(Datetime(MaxTime, TRUE))]}

\* the identities handed to _get_cache_key alone: each field absent, or a str
\* of at most MaxFieldLen characters, the delimiter among them
FieldChars == {"k", ":"}

FieldStrs == UNION {[1..n -> FieldChars] : n \in 0..MaxFieldLen}

KeyInfos ==
    {[appkey |-> a, appsecret |-> b] : a \in FieldStrs, b \in FieldStrs}
    \cup {[appkey |-> a] : a \in FieldStrs}
    \cup {[appsecret |-> b] : b \in FieldStrs}
    \cup {<<>>}

----------------------------------------------------------------------------
\* The operations, as functions of the state they run in: the manager's
\* (v, vu), the store c and the time t.  Each yields the state it leaves and
\* what the caller sees (ret, or the exception raised).

\* (mutant) create writing the store before it assigns value and valid_until
create_persist_first(resp, key_info, set_fails, v, vu, c, t) ==
    IF "access_token" \notin DOMAIN resp
    THEN [value |-> v, valid_until |-> vu, cache |-> c, raised |-> "AttributeError"]
    ELSE
    LET v1 == BearerOf(resp)
        d  == valid_until_of(resp, t)
    IN  IF d.exc # "none"
        THEN [value |-> v, valid_until |-> vu, cache |-> c, raised |-> d.exc]
        ELSE IF key_info = None
        THEN [value |-> v1, valid_until |-> d.val, cache |-> c, raised |-> "none"]
        ELSE IF set_fails
        THEN [value |-> v, valid_until |-> vu, cache |-> c, raised |-> "StoreError"]
        ELSE [value |-> v1, valid_until |-> d.val,
              cache |-> CacheSet(c, get_cache_key(key_info),
                                 [value |-> v1, valid_until |-> isoformat(d.val)]),
              raised |-> "none"]

\* create(resp, key_info); set_fails: the store refuses the write
create(resp, key_info, set_fails, v, vu, c, t) ==
    IF "access_token" \notin DOMAIN resp
    THEN [value |-> v, valid_until |-> vu, cache |-> c, raised |-> "AttributeError"]
    ELSE
    LET v1 == BearerOf(resp)
        d  == valid_until_of(resp, t)
    IN  IF d.exc # "none"
        THEN [value |-> v1, valid_until |-> vu, cache |-> c, raised |-> d.exc]
        ELSE IF key_info = None
        THEN [value |-> v1, valid_until |-> d.val, cache |-> c, raised |-> "none"]
        ELSE
        LET cache_key  == get_cache_key(key_info)
            cache_data == [value |-> v1, valid_until |-> isoformat(d.val)]
        IN  IF set_fails
            THEN [value |-> v1, valid_until |-> d.val, cache |-> c,
                  raised |-> "StoreError"]
            ELSE [value |-> v1, valid_until |-> d.val,
                  cache |-> CacheSet(c, cache_key, cache_data), raised |-> "none"]

\* the except branch of load_from_cache, entered with the manager holding (v, vu)
load_except(cache_key, fail, v, vu, c) ==
    IF fail = "delete"
    THEN [value |-> v, valid_until |-> vu, cache |-> c,
          ret |-> "None", raised |-> "StoreError"]
    ELSE [value |-> v, valid_until |-> vu, cache |-> CacheDelete(c, cache_key),
          ret |-> "False", raised |-> "none"]

\* (mutant) a miss that forgets the token held in memory
load_miss_clear(v, vu, c) ==
    [value |-> None, valid_until |-> None, cache |-> c,
     ret |-> "False", raised |-> "none"]

\* load_from_cache when the store has no row under the key: return False
load_miss(v, vu, c) ==
    [value |-> v, valid_until |-> vu, cache |-> c,
     ret |-> "False", raised |-> "none"]

\* the try block of load_from_cache on the row cached_data that get returned,
\* run against the store c as it is by then
load_try(cached_data, cache_key, fail, v, vu, c, t) ==
    IF "value" \notin DOMAIN cached_data
    THEN load_except(cache_key, fail, v, vu, c)
    ELSE
    LET v1 == cached_data.value IN
    IF "valid_until" \notin DOMAIN cached_data
    THEN load_except(cache_key, fail, v1, vu, c)
    ELSE
    LET p == fromisoformat(cached_data.valid_until) IN
    IF p.exc # "none"
    THEN load_except(cache_key, fail, v1, vu, c)
    ELSE
    LET vu1 == p.val
        ok  == is_valid(v1, vu1, t)
    IN  IF ok.exc # "none"
        THEN load_except(cache_key, fail, v1, vu1, c)
        ELSE IF ok.val
        THEN [value |-> v1, valid_until |-> vu1, cache |-> c,
              ret |-> "True", raised |-> "none"]
        ELSE IF fail = "delete"
        THEN [value |-> v1, valid_until |-> vu1, cache |-> c,
              ret |-> "None", raised |-> "StoreError"]
        ELSE [value |-> None, valid_until |-> None,
              cache |-> CacheDelete(c, cache_key),
              ret |-> "False", raised |-> "none"]

\* load_from_cache(key_info); fail: the store call that fails ("none", "get", "delete")
load_from_cache(key_info, fail, v, vu, c, t) ==
    LET cache_key   == get_cache_key(key_info)
        cached_data == CacheGet(c, cache_key)
    IN  IF fail = "get"
        THEN [value |-> v, valid_until |-> vu, cache |-> c,
              ret |-> "None", raised |-> "StoreError"]
        ELSE IF cached_data = None THEN load_miss(v, vu, c)
        ELSE load_try(cached_data, cache_key, fail, v, vu, c, t)

----------------------------------------------------------------------------
\* The state machine.

NoCall == [op |-> "none"]

\* the two managers of the shared store
Managers == {"m1", "m2"}

\* the identity both managers are given
SharedIdentity == [appkey |-> <<"k", "1">>, appsecret |-> <<"s", "1">>]

\* a manager as constructed, outside load_from_cache
Idle == [value |-> None, valid_until |-> None,
         pc |-> "idle", key_info |-> None, cached_data |-> None]

Init ==
    /\ value = None
    /\ valid_until = None
    /\ cache = {}
    /\ now = 0
    /\ last = NoCall
    /\ key_in = <<>>
    /\ key_out = <<>>
    /\ mgr = [m \in Managers |-> Idle]

\* AccessToken(cache_dir): a new manager on the same store (a process restart)
Construct ==
    /\ value' = None
    /\ valid_until' = None
    /\ last' = NoCall
    /\ UNCHANGED <<cache, now, key_in, key_out, mgr>>

\* create(resp, key_info) by the manager's owner.  prior: the row the store
\* held under the identity's key when create was called.
Create(resp, key_info, set_fails) ==
    \E r \in {create(resp, key_info, set_fails, value, valid_until, cache, now)} :
    /\ value' = r.value
    /\ valid_until' = r.valid_until
    /\ cache' = r.cache
    /\ last' = [op |-> "create", resp |-> resp, key_info |-> key_info,
                set_fails |-> set_fails,
                prior |-> IF key_info = None THEN None
                          ELSE CacheGet(cache, get_cache_key(key_info)),
                ret |-> "None", raised |-> r.raised]
    /\ UNCHANGED <<now, key_in, key_out, mgr>>

\* load_from_cache(key_info) by the manager's owner.  cached_data: what the
\* store held under the identity's key when load_from_cache was called.
LoadFromCache(key_info, fail) ==
    \E r \in {load_from_cache(key_info, fail, value, valid_until, cache, now)} :
    /\ value' = r.value
    /\ valid_until' = r.valid_until
    /\ cache' = r.cache
    /\ last' = [op |-> "load_from_cache", key_info |-> key_info, fail |-> fail,
                cached_data |-> CacheGet(cache, get_cache_key(key_info)),
                ret |-> r.ret, raised |-> r.raised]
    /\ UNCHANGED <<now, key_in, key_out, mgr>>

\* a call of is_valid() by the manager's owner
IsValid ==
    LET r == is_valid(value, valid_until, now) IN
    /\ last' = [op |-> "is_valid",
                ret |-> IF r.exc # "none" THEN "None"
                        ELSE IF r.val THEN "True" ELSE "False",
                raised |-> r.exc]
    /\ UNCHANGED <<value, valid_until, cache, now, key_in, key_out, mgr>>

\* time passes
Tick ==
    /\ now < MaxTime
    /\ now' = now + 1
    /\ last' = NoCall
    /\ UNCHANGED <<value, valid_until, cache, key_in, key_out, mgr>>

\* somebody else writes the store's row of key k by hand
Tamper(k, data) ==
    /\ cache' = CacheSet(cache, k, data)
    /\ last' = NoCall
    /\ UNCHANGED <<value, valid_until, now, key_in, key_out, mgr>>

\* the store drops the row of key k (culled, or removed by hand)
Evict(k) ==
    /\ CacheHas(cache, k)
    /\ cache' = CacheDelete(cache, k)
    /\ last' = NoCall
    /\ UNCHANGED <<value, valid_until, now, key_in, key_out, mgr>>

\* set_fails / fail name the store call that fails if the code makes it; a
\* store call can only fail where the code makes it: set after a well-formed
\* response with an identity, delete on a row that is there.
Next ==
    \/ Construct
    \/ \E resp \in Resps, key_info \in Identities \cup {None}, set_fails \in BOOLEAN :
           /\ set_fails => resp \in WellFormedResps /\ key_info # None
           /\ Create(resp, key_info, set_fails)
    \/ \E key_info \in Identities, fail \in {"none", "get", "delete"} :
           /\ fail = "delete" => CacheHas(cache, get_cache_key(key_info))
           /\ LoadFromCache(key_info, fail)
    \/ IsValid
    \/ Tick
    \/ \E k \in Keys, data \in CorruptRecords \cup HandWrittenRecords : Tamper(k, data)
    \/ \E k \in Keys : Evict(k)

Spec == Init /\ [][Next]_vars

----------------------------------------------------------------------------
\* _get_cache_key on its own: two identities are drawn, then their keys derived.

InitKey ==
    /\ value = None
    /\ valid_until = None
    /\ cache = {}
    /\ now = 0
    /\ last = NoCall
    /\ key_in \in KeyInfos \X KeyInfos
    /\ key_out = <<>>
    /\ mgr = [m \in Managers |-> Idle]

DeriveKeys ==
    /\ key_out = <<>>
    /\ key_out' = <<get_cache_key(key_in[1]), get_cache_key(key_in[2])>>
    /\ UNCHANGED <<value, valid_until, cache, now, last, key_in, mgr>>

NextKey == DeriveKeys

SpecKey == InitKey /\ [][NextKey]_vars

----------------------------------------------------------------------------
\* Two managers on one store.  Every store call (get, set, delete) is one
\* step; load_from_cache is its get, then its try block with the delete,
\* and the other manager's calls may fall between the two.

InitConc ==
    /\ value = None
    /\ valid_until = None
    /\ cache = {}
    /\ now = 0
    /\ last = NoCall
    /\ key_in = <<>>
    /\ key_out = <<>>
    /\ mgr = [m \in Managers |-> Idle]

\* manager m calls create(resp, key_info): its one store call is the set
ConcCreate(m, resp, key_info) ==
    /\ mgr[m].pc = "idle"
    /\ \E r \in {create(resp, key_info, FALSE,
                        mgr[m].value, mgr[m].valid_until, cache, now)} :
           /\ mgr' = [mgr EXCEPT ![m].value = r.value,
                                 ![m].valid_until = r.valid_until]
           /\ cache' = r.cache
    /\ UNCHANGED <<value, valid_until, now, last, key_in, key_out>>

\* manager m enters load_from_cache(key_info): the get; a miss returns False
ConcLoadGet(m, key_info) ==
    /\ mgr[m].pc = "idle"
    /\ \E cached_data \in {CacheGet(cache, get_cache_key(key_info))} :
           mgr' = IF cached_data = None THEN mgr
                  ELSE [mgr EXCEPT ![m].pc = "try",
                                   ![m].key_info = key_info,
                                   ![m].cached_data = cached_data]
    /\ UNCHANGED <<value, valid_until, cache, now, last, key_in, key_out>>

\* manager m runs the try block on the row it read, the delete included
ConcLoadTry(m) ==
    /\ mgr[m].pc = "try"
    /\ \E r \in {load_try(mgr[m].cached_data, get_cache_key(mgr[m].key_info), "none",
                          mgr[m].value, mgr[m].valid_until, cache, now)} :
           /\ mgr' = [mgr EXCEPT ![m] = [value |-> r.value,
                                         valid_until |-> r.valid_until,
                                         pc |-> "idle", key_info |-> None,
                                         cached_data |-> None]]
           /\ cache' = r.cache
    /\ UNCHANGED <<value, valid_until, now, last, key_in, key_out>>

\* time passes
ConcTick ==
    /\ now < MaxTime
    /\ now' = now + 1
    /\ UNCHANGED <<value, valid_until, cache, last, key_in, key_out, mgr>>

\* both managers serve the same identity, so they meet on one key
NextConc ==
    \/ \E m \in Managers, resp \in WellFormedResps :
           ConcCreate(m, resp, SharedIdentity)
    \/ \E m \in Managers : ConcLoadGet(m, SharedIdentity)
    \/ \E m \in Managers : ConcLoadTry(m)
    \/ ConcTick

SpecConc == InitConc /\ [][NextConc]_vars

----------------------------------------------------------------------------
\* The claims.

\* C1: in every reachable state value and valid_until are both present or
\* both absent.
C1_NoPartialState == (value = None) <=> (valid_until = None)

\* C2: from any state, create(resp, identity) followed, less than
\* expires_in - 60 seconds later, by load_from_cache(identity) on a fresh
\* manager sharing the store returns True and leaves the fresh manager valid
\* with value "Bearer " + resp.access_token.
C2_RoundTrip ==
    \A resp \in WellFormedResps, id \in Identities, t1 \in now..(now + MaxLife + 1) :
        LET made   == create(resp, id, FALSE, value, valid_until, cache, now)
            loaded == load_from_cache(id, "none", None, None, made.cache, t1)
        IN  t1 - now < resp.expires_in.n - 60 =>
                /\ loaded.raised = "none"
                /\ loaded.ret = "True"
                /\ loaded.value = Str("Bearer " \o resp.access_token.s)
                /\ is_valid(loaded.value, loaded.valid_until, t1) = Ok(TRUE)

\* a load_from_cache that returned True on a row only create writes, after
\* time has passed
C2_Witness ==
    /\ last.op = "load_from_cache"
    /\ last.ret = "True"
    /\ last.cached_data.value = Str("Bearer xyz789")
    /\ value = Str("Bearer xyz789")
    /\ now > 0
    /\ is_valid(value, valid_until, now) = Ok(TRUE)

\* C3: load_from_cache on an entry that cannot be deserialized (no value, no
\* valid_until, a malformed timestamp) returns False without raising, leaves
\* value and valid_until absent and removes the entry.
C3_CorruptEntryCleared ==
    (/\ last.op = "load_from_cache"
     /\ last.fail = "none"
     /\ last.cached_data # None
     /\ \/ "value" \notin DOMAIN last.cached_data
        \/ "valid_until" \notin DOMAIN last.cached_data
        \/ fromisoformat(last.cached_data.valid_until).exc # "none")
    => /\ last.ret = "False"
       /\ last.raised = "none"
       /\ value = None
       /\ valid_until = None
       /\ ~CacheHas(cache, get_cache_key(last.key_info))

\* C4: load_from_cache on a well-formed entry whose valid_until is not after
\* the current time returns False, removes the entry and leaves value and
\* valid_until absent.
C4_ExpiredEntryCleared ==
    (/\ last.op = "load_from_cache"
     /\ last.fail = "none"
     /\ last.cached_data # None
     /\ DOMAIN last.cached_data = {"value", "valid_until"}
     /\ fromisoformat(last.cached_data.valid_until).exc = "none"
     /\ fromisoformat(last.cached_data.valid_until).val.t <= now)
    => /\ last.ret = "False"
       /\ ~CacheHas(cache, get_cache_key(last.key_info))
       /\ value = None
       /\ valid_until = None

\* C5: after create with a well-formed response, value is "Bearer " +
\* access_token and valid_until is the time of the call + expires_in - 60;
\* when expires_in > 60 the token is valid at every time before valid_until.
C5_CreatePost ==
    (last.op = "create" /\ last.resp \in WellFormedResps) =>
        LET e == last.resp.expires_in.n IN
        /\ value = Str("Bearer " \o last.resp.access_token.s)
        /\ valid_until = Datetime(now + e - 60, FALSE)
        /\ e > 60 =>
               \A t \in now..(now + MaxLife + 1) :
                   t < now + e - 60 => is_valid(value, valid_until, t) = Ok(TRUE)

\* the spec's scenario, scaled: a response living longer than the margin
C5_Witness ==
    /\ last.op = "create"
    /\ last.raised = "none"
    /\ last.resp = [access_token |-> Str("abc123"), expires_in |-> PyInt(62)]
    /\ value = Str("Bearer abc123")
    /\ valid_until = Datetime(now + 2, FALSE)
    /\ is_valid(value, valid_until, now + 1) = Ok(TRUE)

\* C6: a token created with expires_in <= 60 has valid_until <= now and
\* is_valid() is False at the time of the call and at every later time.
C6_ExpiryBoundary ==
    (/\ last.op = "create"
     /\ last.resp \in WellFormedResps
     /\ last.resp.expires_in.n <= 60)
    => /\ valid_until.t <= now
       /\ \A t \in now..(now + MaxLife + 1) :
              is_valid(value, valid_until, t) = Ok(FALSE)

\* a token created with expires_in = 60: valid_until is the time of the call
C6_Witness ==
    /\ last.op = "create"
    /\ last.raised = "none"
    /\ last.resp \in WellFormedResps
    /\ last.resp.expires_in.n = 60
    /\ valid_until = Datetime(now, FALSE)
    /\ is_valid(value, valid_until, now) = Ok(FALSE)

\* C7: a create with an identity whose key already has a row (the second of
\* two creates) leaves exactly one row under that key, holding this
\* response's value and valid_until.
C7_CreateTwice ==
    (/\ last.op = "create"
     /\ last.raised = "none"
     /\ last.key_info # None
     /\ last.prior # None)
    => LET rows == {r \in cache : r.key = get_cache_key(last.key_info)} IN
       /\ Cardinality(rows) = 1
       /\ \A r \in rows :
              r.data = [value |-> Str("Bearer " \o last.resp.access_token.s),
                        valid_until |->
                            isoformat(Datetime(now + last.resp.expires_in.n - 60, FALSE))]

\* the second create replaced the row an earlier create wrote for another token
C7_Witness ==
    /\ last.op = "create"
    /\ last.raised = "none"
    /\ last.key_info \in Identities
    /\ last.prior # None
    /\ last.prior.value = Str("Bearer xyz789")
    /\ last.resp.access_token = Str("abc123")
    /\ CacheGet(cache, get_cache_key(last.key_info)).value = Str("Bearer abc123")

\* C8: the derived keys are equal exactly when the identities have the same
\* appkey and the same appsecret, an absent field counting as "".
C8_KeyInjective ==
    key_out # <<>> =>
        (key_out[1] = key_out[2]
            <=> /\ FieldOf(key_in[1], "appkey") = FieldOf(key_in[2], "appkey")
                /\ FieldOf(key_in[1], "appsecret") = FieldOf(key_in[2], "appsecret"))

\* C8, amended: the same, for identities whose appkey holds no ":".
C8_KeyInjectiveNoDelimiter ==
    (/\ key_out # <<>>
     /\ \A i \in 1..2 : \A n \in DOMAIN FieldOf(key_in[i], "appkey") :
            FieldOf(key_in[i], "appkey")[n] # ":")
    => (key_out[1] = key_out[2]
            <=> /\ FieldOf(key_in[1], "appkey") = FieldOf(key_in[2], "appkey")
                /\ FieldOf(key_in[1], "appsecret") = FieldOf(key_in[2], "appsecret"))

\* two identities with the same appkey and different appsecrets, a ":" in
\* one of them, got different keys
C8_Witness ==
    /\ key_out # <<>>
    /\ FieldOf(key_in[1], "appkey") = <<"k">>
    /\ FieldOf(key_in[2], "appkey") = <<"k">>
    /\ FieldOf(key_in[1], "appsecret") = <<":">>
    /\ FieldOf(key_in[2], "appsecret") = <<"k">>
    /\ key_out[1] # key_out[2]

\* C9: a create call leaves value and valid_until either both derived from
\* its response or both as they were before the call.
C9_FullReplace ==
    [][last'.op = "create" =>
          \/ /\ last'.resp \in WellFormedResps
             /\ value' = Str("Bearer " \o last'.resp.access_token.s)
             /\ valid_until' = Datetime(now + last'.resp.expires_in.n - 60, FALSE)
          \/ /\ value' = value
             /\ valid_until' = valid_until]_vars

\* C10: a create whose store write fails raises, persists nothing, and still
\* leaves value and valid_until derived from the response; the token is
\* valid when expires_in > 60.
C10_StoreWriteFailure ==
    [][(last'.op = "create" /\ last'.set_fails) =>
          LET e == last'.resp.expires_in.n IN
          /\ last'.raised = "StoreError"
          /\ cache' = cache
          /\ value' = Str("Bearer " \o last'.resp.access_token.s)
          /\ valid_until' = Datetime(now + e - 60, FALSE)
          /\ e > 60 => is_valid(value', valid_until', now') = Ok(TRUE)]_vars

\* a failed write on an empty store left a valid token in memory
C10_Witness ==
    /\ last.op = "create"
    /\ last.set_fails
    /\ last.raised = "StoreError"
    /\ last.resp.expires_in.n > 60
    /\ cache = {}
    /\ value = Str("Bearer " \o last.resp.access_token.s)
    /\ is_valid(value, valid_until, now) = Ok(TRUE)

\* C11: a load_from_cache whose store get fails, or whose cleanup delete
\* fails, returns False and raises nothing; the only store error a caller
\* ever sees is the write error of create.
C11_StoreReadDegrades ==
    /\ (/\ last.op = "load_from_cache"
        /\ \/ last.fail = "get"
           \/ last.fail = "delete" /\ last.ret # "True")
       => /\ last.ret = "False"
          /\ last.raised = "none"
    /\ (last.op # "none" /\ last.raised = "StoreError")
       => /\ last.op = "create"
          /\ last.set_fails

\* C12: every is_valid() call returns without raising, returns True exactly
\* when value and valid_until are present and the current time is before
\* valid_until, and leaves value, valid_until and the store as they were.
C12_IsValidPureTotal ==
    [][last'.op = "is_valid" =>
          /\ last'.raised = "none"
          /\ last'.ret = IF /\ value # None
                            /\ valid_until # None
                            /\ now < valid_until.t
                         THEN "True" ELSE "False"
          /\ value' = value
          /\ valid_until' = valid_until
          /\ cache' = cache]_vars

\* C13: load_from_cache (the store answering) returns True exactly when the
\* store held under the identity's key a well-formed entry whose valid_until
\* is after the current time; when it returns True, value and valid_until
\* are the entry's fields and the entry is still there, unchanged.
C13_LoadTrueIffFresh ==
    (last.op = "load_from_cache" /\ last.fail = "none") =>
        LET d     == last.cached_data
            fresh == /\ d # None
                     /\ DOMAIN d = {"value", "valid_until"}
                     /\ fromisoformat(d.valid_until).exc = "none"
                     /\ now < fromisoformat(d.valid_until).val.t
        IN  /\ last.ret = "True" <=> fresh
            /\ last.ret = "True" =>
                   /\ value = d.value
                   /\ valid_until = fromisoformat(d.valid_until).val
                   /\ CacheGet(cache, get_cache_key(last.key_info)) = d

\* C14: a load_from_cache that finds no entry under the identity's key (the
\* store answering) returns False, raises nothing and leaves value,
\* valid_until and every store entry as they were before the call.
C14_MissLeavesAll ==
    [][(/\ last'.op = "load_from_cache"
        /\ last'.fail = "none"
        /\ last'.cached_data = None)
       => /\ last'.ret = "False"
          /\ last'.raised = "none"
          /\ value' = value
          /\ valid_until' = valid_until
          /\ cache' = cache]_vars

\* a miss for one identity while the manager holds a token and the store
\* holds another identity's entry
C14_Witness ==
    /\ last.op = "load_from_cache"
    /\ last.fail = "none"
    /\ last.cached_data = None
    /\ last.ret = "False"
    /\ value # None
    /\ valid_until # None
    /\ cache # {}

\* C15: create without an identity leaves the store unchanged; create with
\* an identity leaves every entry under another key unchanged and, when it
\* does not raise, leaves under its own key the entry of this response;
\* load_from_cache leaves every entry under another key unchanged.
C15_StoreFrame ==
    [][/\ last'.op = "create" =>
              IF last'.key_info = None
              THEN cache' = cache
              ELSE LET k == get_cache_key(last'.key_info) IN
                   /\ {r \in cache' : r.key # k} = {r \in cache : r.key # k}
                   /\ last'.raised = "none" =>
                          {r \in cache' : r.key = k} =
                              {[key |-> k,
                                data |-> [value |-> value',
                                          valid_until |-> isoformat(valid_until')]]}
       /\ last'.op = "load_from_cache" =>
              LET k == get_cache_key(last'.key_info) IN
              {r \in cache' : r.key # k} = {r \in cache : r.key # k}]_vars

\* a load_from_cache removed its identity's entry and the other identity's
\* entry is still in the store
C15_Witness ==
    /\ last.op = "load_from_cache"
    /\ last.cached_data # None
    /\ ~CacheHas(cache, get_cache_key(last.key_info))
    /\ \E id \in Identities :
           /\ get_cache_key(id) # get_cache_key(last.key_info)
           /\ CacheHas(cache, get_cache_key(id))

\* C16: right after a load_from_cache that returned, is_valid() is the
\* boolean load_from_cache returned.
C16_LoadAgreesWithIsValid ==
    (last.op = "load_from_cache" /\ last.raised = "none") =>
        is_valid(value, valid_until, now) = Ok(last.ret = "True")

\* C17 (validity never comes back by itself): when is_valid() is False, it
\* is still False after any step that is neither a create call nor a
\* load_from_cache call returning True, time passing included.
C17_ValidityNeverReturns ==
    [][(/\ is_valid(value, valid_until, now) = Ok(FALSE)
        /\ ~(last'.op = "create")
        /\ ~(last'.op = "load_from_cache" /\ last'.ret = "True"))
       => is_valid(value', valid_until', now') = Ok(FALSE)]_vars

\* C18: with two managers on one store and their store calls interleaved,
\* no step removes an entry that is well-formed and unexpired when it is
\* removed (load_from_cache's delete is the only call that removes one).
C18_NoFreshEntryDeleted ==
    [][\A k \in Keys :
          (CacheHas(cache, k) /\ ~CacheHas(cache', k)) =>
              LET d == CacheGet(cache, k) IN
              ~(/\ DOMAIN d = {"value", "valid_until"}
                /\ fromisoformat(d.valid_until).exc = "none"
                /\ now < fromisoformat(d.valid_until).val.t)]_vars

====
